---- MODULE Spec2Model ----
(***************************************************************************)
(* Model of the tc32 backend: the upload-preview route                     *)
(* (src/app/api/tc32/upload-preview/route.ts) and the orders-paid webhook  *)
(* route (src/unnamed/part_000).                                           *)
(*                                                                         *)
(* One invocation of a handler is a state machine whose steps are the      *)
(* stretches of code between two awaited network calls.  The remote        *)
(* platform is the environment: every response it can give is drawn        *)
(* nondeterministically.                                                   *)
(***************************************************************************)
EXTENDS Integers, Sequences, FiniteSets, TLC

(***************************************************************************)
(* Bounds of the model (not program constants).                            *)
(***************************************************************************)
NumUrls == 2
NumFileIds == 2

(***************************************************************************)
(* Program constants.                                                      *)
(***************************************************************************)
PollAttempts == 6

\* JavaScript null / undefined, and the falsy test `!v` on string values.
Null == "<null>"
Falsy(v) == v \in {Null, ""}
\* a || b on string-or-null values
Or(a, b) == IF Falsy(a) THEN b ELSE a

Urls == {"https://cdn/u" \o ToString(n) : n \in 1..NumUrls}
FileIds == {"gid://File/" \o ToString(n) : n \in 1..NumFileIds}

(***************************************************************************)
(* parseDataUrl: /^data:([^;]+);base64,(.+)$/i over sequences of           *)
(* characters.                                                             *)
(***************************************************************************)
Lower(c) ==
    CASE c = "D" -> "d" [] c = "A" -> "a" [] c = "T" -> "t" [] c = "B" -> "b"
      [] c = "S" -> "s" [] c = "E" -> "e" [] OTHER -> c

LowerSeq(s) == [k \in 1..Len(s) |-> Lower(s[k])]

Slice(s, a, b) == IF b < a THEN <<>> ELSE [k \in 1..(b - a + 1) |-> s[a + k - 1]]

LitData == <<"d", "a", "t", "a", ":">>
LitBase64 == <<";", "b", "a", "s", "e", "6", "4", ",">>

\* `.` matches every character but a line terminator.
LineTerminators == {"\n", "\r"}

\* Position of the first ";" at or after position a (0 when there is none).
FirstSemi(s, a) ==
    IF \E k \in a..Len(s) : s[k] = ";"
    THEN CHOOSE k \in a..Len(s) : s[k] = ";" /\ \A h \in a..(k - 1) : s[h] # ";"
    ELSE 0

\* The regular expression's match: [matched, mime, b64].
DataUrlMatch(s) ==
    LET j == FirstSemi(s, 6)
        ok == /\ Len(s) >= 5
              /\ LowerSeq(Slice(s, 1, 5)) = LitData
              /\ j > 6
              /\ LowerSeq(Slice(s, j, j + 7)) = LitBase64
              /\ Len(s) >= j + 8
              /\ \A k \in (j + 8)..Len(s) : s[k] \notin LineTerminators
    IN  IF j + 7 <= Len(s) /\ ok
        THEN [matched |-> TRUE, mime |-> Slice(s, 6, j - 1), b64 |-> Slice(s, j + 8, Len(s))]
        ELSE [matched |-> FALSE, mime |-> <<>>, b64 |-> <<>>]

\* parseDataUrl(dataUrl): throws when the expression does not match.
parseDataUrl(dataUrl) ==
    LET m == DataUrlMatch(dataUrl)
    IN  IF ~m.matched
        THEN [thrown |-> TRUE, error |-> "dataUrl invalido", mime |-> <<>>, b64 |-> <<>>]
        ELSE [thrown |-> FALSE, error |-> "", mime |-> m.mime, b64 |-> m.b64]


(***************************************************************************)
(* Requests to the upload-preview route.  A data URL is a sequence of      *)
(* characters; hasDataUrl is FALSE when the field is absent.               *)
(***************************************************************************)
Chars(kind) ==
    CASE kind = "valid" ->
           <<"d","a","t","a",":","i","/","p",";","b","a","s","e","6","4",",","Q","Q">>
      [] kind = "upper" ->
           <<"D","A","T","A",":","i","/","p",";","B","A","S","E","6","4",",","Q">>
      [] kind = "empty" -> <<>>
      [] kind = "nomime" ->
           <<"d","a","t","a",":",";","b","a","s","e","6","4",",","Q">>
      [] kind = "nopayload" ->
           <<"d","a","t","a",":","i","/","p",";","b","a","s","e","6","4",",">>
      [] kind = "nobase64" ->
           <<"d","a","t","a",":","i","/","p",",","Q","Q">>
      [] kind = "prefixed" ->
           <<"x","d","a","t","a",":","i","/","p",";","b","a","s","e","6","4",",","Q">>
      [] kind = "newline" ->
           <<"d","a","t","a",":","i","/","p",";","b","a","s","e","6","4",",","Q","\n","Q">>
      [] kind = "extraparam" ->
           <<"d","a","t","a",":","i","/","p",";","x",";","b","a","s","e","6","4",",","Q">>

DataUrlKinds ==
    {"valid", "upper", "empty", "nomime", "nopayload", "nobase64", "prefixed",
     "newline", "extraparam"}

DataUrls == {Chars(k) : k \in DataUrlKinds}

\* body: "invalid" (not JSON), "null" (the JSON value null), "object".
\* The optional groupId and areaKey vary on the well-formed request and on
\* the requests without a data URL.
ObjectRequests ==
    [body : {"object"}, hasDataUrl : BOOLEAN, dataUrl : DataUrls,
     filename : {Null, "", "preview.png"},
     groupId : {Null, "ORDER123"}, areaKey : {Null, "FRONT"}]

Requests ==
    {r \in ObjectRequests :
        /\ ~r.hasDataUrl => r.dataUrl = <<>>
        /\ (r.hasDataUrl /\ r.dataUrl # Chars("valid"))
              => (r.groupId = Null /\ r.areaKey = Null)}
    \cup [body : {"invalid", "null"}, hasDataUrl : {FALSE}, dataUrl : {<<>>},
          filename : {Null}, groupId : {Null}, areaKey : {Null}]

\* Process configuration: SHOPIFY_SHOP_DOMAIN and SHOPIFY_ADMIN_ACCESS_TOKEN.
Envs == [shop : {Null, "", "tc32.myshopify.com"}, token : {Null, "shpat_1"}]

(***************************************************************************)
(* Responses of the remote platform, in one record shape for the four      *)
(* operations:                                                             *)
(*   net        the fetch resolved (FALSE: it rejected)                    *)
(*   httpOk     res.ok                                                     *)
(*   gqlErrors  length of json.errors                                      *)
(*   hasData    json.data and its top-level field are present              *)
(*   userErrors length of userErrors                                       *)
(*   hasItem    stagedTargets[0] / files[0] / node is present              *)
(*   url        stagedTarget.url, or the GenericFile url                   *)
(*   resourceUrl, params, hasParams   the staged target's other fields     *)
(*   id, imageUrl                     the file's id and image.url          *)
(***************************************************************************)
Blank ==
    [net |-> TRUE, httpOk |-> TRUE, gqlErrors |-> 0, hasData |-> TRUE,
     userErrors |-> 0, hasItem |-> FALSE, url |-> Null, resourceUrl |-> Null,
     params |-> <<>>, hasParams |-> FALSE, id |-> Null, imageUrl |-> Null]

TransportFailures ==
    { [Blank EXCEPT !.net = FALSE],
      [Blank EXCEPT !.httpOk = FALSE],
      [Blank EXCEPT !.gqlErrors = 1],
      [Blank EXCEPT !.hasData = FALSE] }

\* Parameter lists a staged target may carry.
ParamKey == [name |-> "key", value |-> "k1"]
ParamPolicy == [name |-> "policy", value |-> "p1"]

ParamSeqs ==
    { <<>>, <<ParamKey>>, <<ParamKey, ParamPolicy>>, <<ParamPolicy, ParamKey>> }

StagingResponses ==
    TransportFailures
    \cup { [Blank EXCEPT !.userErrors = 1], Blank }
    \cup { [Blank EXCEPT !.userErrors = ue, !.hasItem = TRUE, !.url = u,
                         !.resourceUrl = ru, !.params = ps, !.hasParams = TRUE]
           : ue \in {0, 1}, u \in {"", "https://stage/up"},
             ru \in {Null, "https://stage/res"}, ps \in ParamSeqs }
    \cup { [Blank EXCEPT !.hasItem = TRUE, !.url = "https://stage/up",
                         !.resourceUrl = "https://stage/res"] }

UploadResponses ==
    { [Blank EXCEPT !.net = FALSE], [Blank EXCEPT !.httpOk = FALSE], Blank }

RegisterResponses ==
    TransportFailures
    \cup { [Blank EXCEPT !.userErrors = 1], Blank }
    \cup { [Blank EXCEPT !.userErrors = ue, !.hasItem = TRUE, !.id = id,
                         !.imageUrl = iu, !.url = u]
           : ue \in {0, 1}, id \in {Null} \cup FileIds,
             iu \in {Null, ""} \cup Urls, u \in {Null} \cup Urls }

\* node is null, or a node with or without its URLs (an empty image.url
\* comes with a GenericFile url).
PollResponses ==
    TransportFailures
    \cup { Blank }
    \cup { r \in { [Blank EXCEPT !.hasItem = TRUE, !.imageUrl = iu, !.url = u]
                    : iu \in {Null, ""} \cup Urls, u \in {Null} \cup Urls }
           : r.imageUrl = "" => r.url # Null }


(***************************************************************************)
(* State of one invocation of the upload-preview POST handler.             *)
(*   pc       position of the handler: start, staging / upload / register  *)
(*            / poll (awaiting that call's response), sleep (awaiting the  *)
(*            timer), done                                                 *)
(*   env      the process configuration                                    *)
(*   req      the request body                                             *)
(*   mime, b64, staged, created, url, i   the handler's locals             *)
(*   calls    outbound network calls issued so far, in order               *)
(*   resps    the responses received so far: resps[k] answers calls[k]     *)
(*   sleeps   number of completed waits                                    *)
(*   result   the HTTP response of the invocation                          *)
(***************************************************************************)
VARIABLES pc, env, req, mime, b64, staged, created, url, i, calls, resps,
          sleeps, result

\* form: the parts of the multipart form of the upload, in order.
VARIABLE form

uvars == <<pc, env, req, mime, b64, staged, created, url, i, calls, resps,
           sleeps, result, form>>

(***************************************************************************)
(* State of one invocation of the webhook POST handler.                    *)
(*   wpc       position: start, reading (awaiting req.text()), verify,     *)
(*             parse, done; idle when no webhook invocation runs           *)
(*   secret    SHOPIFY_WEBHOOK_SECRET                                      *)
(*   wreq      the request: the signature header and the body              *)
(*   raw       the body as read                                            *)
(*   okHmac    result of verifyShopifyHmac ("true", "false"), "none"       *)
(*             until computed                                              *)
(*   parsed    JSON.parse has been called on the body                      *)
(*   logged    the fields written to the log                               *)
(*   wresult   the HTTP response                                           *)
(***************************************************************************)
VARIABLES wpc, secret, wreq, raw, okHmac, parsed, logged, wresult

wvars == <<wpc, secret, wreq, raw, okHmac, parsed, logged, wresult>>

(***************************************************************************)
(* State of two upload-preview invocations running at once.  The variables *)
(* are functions of the invocation:                                         *)
(*   cpc      position of each invocation                                   *)
(*   cloc     the locals of each activation of POST: mime, b64, staged,     *)
(*            form, created, url, i                                         *)
(*   ccalls   the outbound calls each invocation issued, in order           *)
(*   cgot     what the platform returned to each invocation: the staged     *)
(*            target and resourceUrl, the file id, the URLs of that file    *)
(*   cresult  the HTTP response of each invocation                          *)
(***************************************************************************)
VARIABLES cpc, cloc, ccalls, cgot, cresult

cvars == <<cpc, cloc, ccalls, cgot, cresult>>

vars == <<uvars, wvars, cvars>>

Invocations == {1, 2}

NoResult ==
    [status |-> 0, ok |-> FALSE, error |-> "", key |-> Null, id |-> Null,
     url |-> Null, extraId |-> Null, extraImage |-> Null]

\* NextResponse.json({ok:false, error}, {status})
ErrorResult(status, error) ==
    [NoResult EXCEPT !.status = status, !.error = error]

\* The catch block: status 500 with e?.message || "Internal error".
Caught(message) == ErrorResult(500, Or(message, "Internal error"))

\* The response when the poll loop ends without a URL.
PendingResult(c) ==
    [NoResult EXCEPT !.status = 500, !.error = "Archivo creado pero no recibi URL",
                     !.extraId = c.id, !.extraImage = Or(c.imageUrl, Null)]

\* The success response: NextResponse.json({ok:true,key,id,url}), status 200.
SuccessResult(r, c, u) ==
    [NoResult EXCEPT !.status = 200, !.ok = TRUE,
                     !.key = Or(r.groupId, "TC32") \o "__" \o Or(r.areaKey, "HERO"),
                     !.id = c.id, !.url = u]

\* mustEnv(name, v)
mustEnv(name, v) ==
    IF Falsy(v) THEN [thrown |-> TRUE, error |-> "Missing env: " \o name]
    ELSE [thrown |-> FALSE, error |-> ""]

\* shopifyGraphql checking the shop domain alone.
shopifyGraphqlSendShopOnly(e) == mustEnv("SHOPIFY_SHOP_DOMAIN", e.shop)

\* shopifyGraphql up to its fetch: the two mustEnv checks.
shopifyGraphqlSend(e) ==
    IF mustEnv("SHOPIFY_SHOP_DOMAIN", e.shop).thrown
    THEN mustEnv("SHOPIFY_SHOP_DOMAIN", e.shop)
    ELSE mustEnv("SHOPIFY_ADMIN_ACCESS_TOKEN", e.token)

\* shopifyGraphql after its fetch: what it throws on response r.
shopifyGraphqlReceive(r) ==
    IF ~r.net THEN [thrown |-> TRUE, error |-> "fetch failed"]
    ELSE IF ~r.httpOk THEN [thrown |-> TRUE, error |-> "Shopify GraphQL HTTP"]
    ELSE IF r.gqlErrors > 0 THEN [thrown |-> TRUE, error |-> "Shopify GraphQL errors"]
    ELSE [thrown |-> FALSE, error |-> ""]

\* A URL made up from the file id when the platform reports none.
UrlOfOrId(f) == IF f.hasItem THEN Or(Or(Or(f.imageUrl, f.url), f.id), Null) ELSE Null

\* created.image?.url || created.url || null, and the same on a node.
UrlOf(f) == IF f.hasItem THEN Or(Or(f.imageUrl, f.url), Null) ELSE Null

(***************************************************************************)
(* The webhook route.  A signature is a sequence of characters; the HMAC   *)
(* digest is an abstract function of the secret and the body text, one     *)
(* digest per pair and all of one length.                                  *)
(***************************************************************************)
Secrets == {"whsec_1", "whsec_2"}

\* Bodies: text is the raw body, json what JSON.parse makes of it
\* ("object", "null", "other" for a number, string, boolean or array,
\* "invalid" when it throws), processedAt / updatedAt the payload's
\* processed_at / updated_at.
Body(text, json, processedAt, updatedAt) ==
    [text |-> text, json |-> json, processedAt |-> processedAt, updatedAt |-> updatedAt]

Bodies ==
    { Body("", "invalid", Null, Null),
      Body("{}", "object", Null, Null),
      Body("{order,processed_at}", "object", "t1", Null),
      Body("{order,updated_at}", "object", Null, "t2"),
      Body("{order,processed_at,updated_at}", "object", "t1", "t2"),
      Body("null", "null", Null, Null),
      Body("5", "other", Null, Null),
      Body("{order", "invalid", Null, Null) }

NoBody == Body("<unread>", "invalid", Null, Null)

\* crypto.createHmac("sha256", secret).update(rawBody).digest("base64")
Digest(sec, text) == <<"h", sec, text, "=">>

\* Signature header values: none, empty, the digest of some body under
\* some secret, a digest cut short, a digest with a character appended.
Signatures ==
    { <<>> }
    \cup { Digest(sec, b.text) : sec \in Secrets, b \in Bodies }
    \cup { SubSeq(Digest(sec, b.text), 1, 3) : sec \in Secrets, b \in {Body("{}", "object", Null, Null)} }
    \cup { Digest(sec, b.text) \o <<"x">> : sec \in Secrets, b \in {Body("{}", "object", Null, Null)} }

\* textOk is FALSE when reading the body rejects.
WebhookRequests ==
    { r \in [hasHmac : BOOLEAN, hmac : Signatures, body : Bodies, textOk : BOOLEAN] :
        ~r.hasHmac => r.hmac = <<>> }

NoWResult == [status |-> 0, ok |-> FALSE, error |-> ""]

WResponse(status, ok, error) == [status |-> status, ok |-> ok, error |-> error]

\* A catch block that answers 401.
WCaughtUnauthorized(message) == [status |-> 401, ok |-> FALSE, error |-> Or(message, "Internal error")]

\* The catch block of the webhook handler.
WCaught(message) == WResponse(500, FALSE, Or(message, "Internal error"))

NoLog == [written |-> FALSE, paidAt |-> Null]

\* A comparison that looks at the lengths alone.
timingSafeEqualLengthOnly(a, b) == Len(a) = Len(b)

\* timingSafeEqual(a, b): false on a length mismatch, else the bytewise
\* comparison of crypto.timingSafeEqual.
timingSafeEqual(a, b) ==
    IF Len(a) # Len(b) THEN FALSE
    ELSE \A k \in 1..Len(a) : a[k] = b[k]

\* crypto.timingSafeEqual throws a RangeError on buffers of different
\* lengths; timingSafeEqual calls it only behind its length test.
cryptoTimingSafeEqualThrows(ba, bb) == Len(ba) # Len(bb)

timingSafeEqualThrows(a, b) ==
    IF Len(a) # Len(b) THEN FALSE
    ELSE cryptoTimingSafeEqualThrows(a, b)

\* A digest computed with a fixed key instead of the secret.
verifyShopifyHmacFixedKey(rawBody, hmacHeader, sec) ==
    timingSafeEqual(Digest("whsec_1", rawBody), hmacHeader)

\* verifyShopifyHmac(rawBody, hmacHeader, secret)
verifyShopifyHmac(rawBody, hmacHeader, sec) ==
    timingSafeEqual(Digest(sec, rawBody), hmacHeader)

\* What a call of verifyShopifyHmac ends with: "true", "false" or "throws".
VerifyOutcome(rawBody, hmacHeader, sec) ==
    IF timingSafeEqualThrows(Digest(sec, rawBody), hmacHeader) THEN "throws"
    ELSE IF verifyShopifyHmac(rawBody, hmacHeader, sec) THEN "true"
    ELSE "false"

\* No webhook invocation runs.
WebhookIdle ==
    /\ wpc = "idle"
    /\ secret = Null
    /\ wreq = [hasHmac |-> FALSE, hmac |-> <<>>, body |-> NoBody, textOk |-> TRUE]
    /\ raw = NoBody
    /\ okHmac = "none"
    /\ parsed = FALSE
    /\ logged = NoLog
    /\ wresult = NoWResult

\* No upload-preview invocation runs.
UploadIdle ==
    /\ pc = "idle"
    /\ env = [shop |-> Null, token |-> Null]
    /\ req = [body |-> "invalid", hasDataUrl |-> FALSE, dataUrl |-> <<>>,
              filename |-> Null, groupId |-> Null, areaKey |-> Null]
    /\ mime = <<>>
    /\ b64 = <<>>
    /\ staged = Blank
    /\ created = Blank
    /\ url = Null
    /\ i = 0
    /\ calls = <<>>
    /\ resps = <<>>
    /\ sleeps = 0
    /\ result = NoResult
    /\ form = <<>>

\* The locals of an activation of POST before its first statement.
NoLocals ==
    [mime |-> <<>>, b64 |-> <<>>, staged |-> Blank, form |-> <<>>,
     created |-> Blank, url |-> Null, i |-> 0]

NothingGot == [target |-> Null, resourceUrl |-> Null, id |-> Null, urls |-> {}]

\* No pair of concurrent invocations runs.
ConcIdle ==
    /\ cpc = [p \in Invocations |-> "idle"]
    /\ cloc = [p \in Invocations |-> NoLocals]
    /\ ccalls = [p \in Invocations |-> <<>>]
    /\ cgot = [p \in Invocations |-> NothingGot]
    /\ cresult = [p \in Invocations |-> NoResult]

WInit ==
    /\ UploadIdle
    /\ ConcIdle
    /\ wpc = "start"
    /\ secret \in {Null, ""} \cup Secrets
    /\ wreq \in WebhookRequests
    /\ raw = NoBody
    /\ okHmac = "none"
    /\ parsed = FALSE
    /\ logged = NoLog
    /\ wresult = NoWResult

WFinish(r) ==
    /\ wpc' = "done"
    /\ wresult' = r

\* req.headers.get("x-shopify-hmac-sha256") || ""
HmacHeader(r) == IF r.hasHmac THEN r.hmac ELSE <<>>

\* The header looked at before the secret.
WReceiveHeaderFirst ==
    /\ wpc = "start"
    /\ IF HmacHeader(wreq) = <<>>
       THEN WFinish(WResponse(401, FALSE, "Missing HMAC header"))
       ELSE IF mustEnv("SHOPIFY_WEBHOOK_SECRET", secret).thrown
       THEN WFinish(WCaught(mustEnv("SHOPIFY_WEBHOOK_SECRET", secret).error))
       ELSE /\ wpc' = "reading"
            /\ wresult' = wresult
    /\ UNCHANGED <<secret, wreq, raw, okHmac, parsed, logged>>
    /\ UNCHANGED <<uvars, cvars>>

\* The body read before the header is looked at.
WReceiveNoHeaderTest ==
    /\ wpc = "start"
    /\ IF mustEnv("SHOPIFY_WEBHOOK_SECRET", secret).thrown
       THEN WFinish(WCaught(mustEnv("SHOPIFY_WEBHOOK_SECRET", secret).error))
       ELSE /\ wpc' = "reading"
            /\ wresult' = wresult
    /\ UNCHANGED <<secret, wreq, raw, okHmac, parsed, logged>>
    /\ UNCHANGED <<uvars, cvars>>

\* POST from its entry to `await req.text()`: the secret, the headers and
\* the missing-header response.
WReceive ==
    /\ wpc = "start"
    /\ IF mustEnv("SHOPIFY_WEBHOOK_SECRET", secret).thrown
       THEN WFinish(WCaught(mustEnv("SHOPIFY_WEBHOOK_SECRET", secret).error))
       ELSE IF HmacHeader(wreq) = <<>>
       THEN WFinish(WResponse(401, FALSE, "Missing HMAC header"))
       ELSE /\ wpc' = "reading"
            /\ wresult' = wresult
    /\ UNCHANGED <<secret, wreq, raw, okHmac, parsed, logged>>
    /\ UNCHANGED <<uvars, cvars>>

\* `await req.text()` settles.
WReadBody ==
    /\ wpc = "reading"
    /\ IF wreq.textOk
       THEN /\ raw' = wreq.body
            /\ wpc' = "verify"
            /\ wresult' = wresult
       ELSE /\ WFinish(WCaught("body unusable"))
            /\ raw' = raw
    /\ UNCHANGED <<secret, wreq, okHmac, parsed, logged>>
    /\ UNCHANGED <<uvars, cvars>>

\* Lines 52-58: the signature check and its 401.
WVerify ==
    /\ wpc = "verify"
    /\ okHmac' = VerifyOutcome(raw.text, HmacHeader(wreq), secret)
    /\ IF VerifyOutcome(raw.text, HmacHeader(wreq), secret) = "throws"
       THEN WFinish(WCaught("RangeError"))
       ELSE IF VerifyOutcome(raw.text, HmacHeader(wreq), secret) = "false"
       THEN WFinish(WResponse(401, FALSE, "Invalid HMAC"))
       ELSE /\ wpc' = "parse"
            /\ wresult' = wresult
    /\ UNCHANGED <<secret, wreq, raw, parsed, logged>>
    /\ UNCHANGED <<uvars, cvars>>

\* raw ? JSON.parse(raw) : {} - the kind of value payload holds.
PayloadKind(b) == IF b.text = "" THEN "object" ELSE b.json

\* payload.field without the optional chaining: a TypeError on null.
GetFieldUnguarded(b, v) ==
    IF PayloadKind(b) = "null" THEN [thrown |-> TRUE, value |-> Null]
    ELSE IF PayloadKind(b) = "object" THEN [thrown |-> FALSE, value |-> v]
    ELSE [thrown |-> FALSE, value |-> Null]

\* payload?.field, the payload's field holding v when it is an object:
\* undefined on null, and on a value that has no such property.
GetField(b, v) ==
    IF PayloadKind(b) = "null" THEN [thrown |-> FALSE, value |-> Null]
    ELSE IF PayloadKind(b) = "object" THEN [thrown |-> FALSE, value |-> v]
    ELSE [thrown |-> FALSE, value |-> Null]

\* Lines 62-65 throw.
ExtractThrows(b) ==
    GetField(b, b.processedAt).thrown \/ GetField(b, b.updatedAt).thrown

\* payload?.processed_at || payload?.updated_at || null
PaidAt(b) ==
    Or(Or(GetField(b, b.processedAt).value, GetField(b, b.updatedAt).value), Null)

\* Lines 61-89: the payload is parsed (an empty body is the empty payload
\* and is not parsed), its fields are logged and 200 is returned.
WParse ==
    /\ wpc = "parse"
    /\ parsed' = (raw.text # "")
    /\ IF raw.text # "" /\ raw.json = "invalid"
       THEN /\ WFinish(WCaught("Unexpected token in JSON"))
            /\ logged' = logged
       ELSE IF ExtractThrows(raw)
       THEN /\ WFinish(WCaught("TypeError"))
            /\ logged' = logged
       ELSE /\ logged' = [written |-> TRUE, paidAt |-> PaidAt(raw)]
            /\ WFinish(WResponse(200, TRUE, ""))
    /\ UNCHANGED <<secret, wreq, raw, okHmac>>
    /\ UNCHANGED <<uvars, cvars>>

WNext ==
    \/ WReceive
    \/ WReadBody
    \/ WVerify
    \/ WParse

WebhookSpec == WInit /\ [][WNext]_vars

(***************************************************************************)
(* verifyShopifyHmac on its own: the arguments are drawn from the secrets, *)
(* the bodies and every signature value, the empty one included, and one   *)
(* step applies the function.                                              *)
(***************************************************************************)
VerifyInit ==
    /\ UploadIdle
    /\ ConcIdle
    /\ wpc = "call"
    /\ secret \in Secrets
    /\ wreq \in [hasHmac : {TRUE}, hmac : Signatures, body : Bodies, textOk : {TRUE}]
    /\ raw = NoBody
    /\ okHmac = "none"
    /\ parsed = FALSE
    /\ logged = NoLog
    /\ wresult = NoWResult

VerifyCall ==
    /\ wpc = "call"
    /\ wpc' = "returned"
    /\ okHmac' = VerifyOutcome(wreq.body.text, wreq.hmac, secret)
    /\ UNCHANGED <<secret, wreq, raw, parsed, logged, wresult>>
    /\ UNCHANGED <<uvars, cvars>>

VerifyNext == VerifyCall

VerifySpec == VerifyInit /\ [][VerifyNext]_vars

Init ==
    /\ pc = "start"
    /\ env \in Envs
    /\ req \in Requests
    /\ mime = <<>>
    /\ b64 = <<>>
    /\ staged = Blank
    /\ created = Blank
    /\ url = Null
    /\ i = 0
    /\ calls = <<>>
    /\ resps = <<>>
    /\ sleeps = 0
    /\ result = NoResult
    /\ form = <<>>
    /\ WebhookIdle
    /\ ConcIdle

\* The invocation ends with response r.
Finish(r) ==
    /\ pc' = "done"
    /\ result' = r
    /\ calls' = calls

\* A call of shopifyGraphql: it throws on missing configuration, else the
\* request goes out and the handler awaits the response at position next.
GraphqlCall(op, arg, next) ==
    LET s == shopifyGraphqlSend(env)
    IN  IF s.thrown
        THEN Finish(Caught(s.error))
        ELSE /\ pc' = next
             /\ calls' = Append(calls, [op |-> op, arg |-> arg])
             /\ result' = result

\* Lines 60-74 on request r: the response it ends with, or NoResult when
\* the handler goes on to staging.
Validate(r) ==
    IF r.body = "invalid" THEN Caught("Unexpected token in JSON")
    ELSE IF r.body = "null" THEN Caught("TypeError")
    ELSE IF (~r.hasDataUrl \/ r.dataUrl = <<>>) \/ Falsy(r.filename)
    THEN ErrorResult(400, "Falta dataUrl o filename")
    ELSE IF parseDataUrl(r.dataUrl).thrown
    THEN Caught(parseDataUrl(r.dataUrl).error)
    ELSE NoResult

\* POST from its entry to the first await of a network call.
Receive ==
    /\ pc = "start"
    /\ IF Validate(req) # NoResult
       THEN /\ Finish(Validate(req))
            /\ UNCHANGED <<mime, b64>>
       ELSE /\ mime' = parseDataUrl(req.dataUrl).mime
            /\ b64' = parseDataUrl(req.dataUrl).b64
            /\ GraphqlCall("staging", req.filename, "staging")
    /\ UNCHANGED <<env, req, staged, created, url, i, resps, sleeps, form>>
    /\ UNCHANGED <<wvars, cvars>>

(***************************************************************************)
(* Buffer.from(b64, "base64"): the characters up to the first "=" that are *)
(* in the alphabet give six bits each, and every whole group of eight bits *)
(* is a byte.                                                              *)
(***************************************************************************)
B64Value(c) ==
    CASE c = "A" -> 0 [] c = "Q" -> 16 [] c = "g" -> 32 [] c = "/" -> 63
      [] OTHER -> -1

B64Head(s) ==
    IF \E k \in 1..Len(s) : s[k] = "="
    THEN SubSeq(s, 1, (CHOOSE k \in 1..Len(s) :
                          s[k] = "=" /\ \A h \in 1..(k - 1) : s[h] # "=") - 1)
    ELSE s

B64InAlphabet(c) == B64Value(c) >= 0

B64Digits(s) == SelectSeq(B64Head(s), B64InAlphabet)

Pow(b, e) == IF e = 0 THEN 1 ELSE LET P[k \in 0..e] == IF k = 0 THEN 1 ELSE b * P[k - 1] IN P[e]

Base64Decode(s) ==
    LET d == B64Digits(s)
        n == Len(d)
        m == (6 * n) \div 8
        V[k \in 0..n] == IF k = 0 THEN 0 ELSE V[k - 1] * 64 + B64Value(d[k])
        W == V[n] \div Pow(2, 6 * n - 8 * m)
    IN  [j \in 1..m |-> (W \div Pow(256, m - j)) % 256]

\* A part of the form: a field, or the file.
Field(p) ==
    [name |-> p.name, value |-> p.value, isFile |-> FALSE, filename |-> Null,
     bytes |-> <<>>, type |-> <<>>]

FilePart(bytes, type, filename) ==
    [name |-> "file", value |-> Null, isFile |-> TRUE, filename |-> filename,
     bytes |-> bytes, type |-> type]

\* A form whose file part comes first.
BuildFormFileFirst(stg, bytes, type, filename) ==
    <<FilePart(bytes, type, filename)>>
        \o [k \in 1..Len(stg.params) |-> Field(stg.params[k])]

\* Lines 128-138: one field per staged parameter, in the order returned,
\* then the file.
BuildForm(stg, bytes, type, filename) ==
    [k \in 1..Len(stg.params) |-> Field(stg.params[k])]
        \o <<FilePart(bytes, type, filename)>>

\* Lines 111-125 on the staging response: the response the handler ends
\* with, or NoResult when it goes on to the upload.
StagingOutcome(r) ==
    IF shopifyGraphqlReceive(r).thrown THEN Caught(shopifyGraphqlReceive(r).error)
    ELSE IF ~r.hasData THEN Caught("TypeError")
    ELSE IF r.userErrors > 0 THEN ErrorResult(400, "stagedUploadsCreate error")
    ELSE IF ~r.hasItem \/ Falsy(r.url) \/ Falsy(r.resourceUrl)
    THEN ErrorResult(500, "No recibi staged target")
    ELSE IF ~r.hasParams THEN Caught("TypeError")
    ELSE NoResult

\* The staging response arrives; on success the form is built and the
\* upload POST goes out.
StagingResponse ==
    /\ pc = "staging"
    /\ \E r \in StagingResponses :
         /\ resps' = Append(resps, r)
         /\ IF StagingOutcome(r) # NoResult
            THEN /\ Finish(StagingOutcome(r))
                 /\ UNCHANGED <<staged, form>>
            ELSE /\ staged' = r
                 /\ form' = BuildForm(r, Base64Decode(b64), mime, req.filename)
                 /\ pc' = "upload"
                 /\ calls' = Append(calls, [op |-> "upload", arg |-> r.url])
                 /\ result' = result
    /\ UNCHANGED <<env, req, mime, b64, created, url, i, sleeps>>
    /\ UNCHANGED <<wvars, cvars>>

\* The upload response taken as a success whatever its status.
UploadOutcomeUnchecked(r) == IF ~r.net THEN Caught("fetch failed") ELSE NoResult

\* Lines 140-147 on the upload response.
UploadOutcome(r) ==
    IF ~r.net THEN Caught("fetch failed")
    ELSE IF ~r.httpOk THEN ErrorResult(500, "Error subiendo a staged url")
    ELSE NoResult

\* The upload response arrives; on success the register mutation goes out.
UploadResponse ==
    /\ pc = "upload"
    /\ \E r \in UploadResponses :
         /\ resps' = Append(resps, r)
         /\ IF UploadOutcome(r) # NoResult
            THEN Finish(UploadOutcome(r))
            ELSE GraphqlCall("register", staged.resourceUrl, "register")
    /\ UNCHANGED <<env, req, mime, b64, staged, created, url, i, sleeps, form>>
    /\ UNCHANGED <<wvars, cvars>>

\* Lines 191-205 on the register response.
RegisterOutcome(r) ==
    IF shopifyGraphqlReceive(r).thrown THEN Caught(shopifyGraphqlReceive(r).error)
    ELSE IF ~r.hasData THEN Caught("TypeError")
    ELSE IF r.userErrors > 0 THEN ErrorResult(400, "fileCreate error")
    ELSE IF ~r.hasItem \/ Falsy(r.id) THEN ErrorResult(500, "Archivo creado pero sin ID")
    ELSE NoResult

\* The poll loop entered whatever the register response carried.
EntersLoopAlways(u) == TRUE

\* A poll loop that never leaves early.
BreaksLoopNever(u) == FALSE

\* A loop test that lets one more iteration through.
LoopContinuesOneMore(n) == n <= PollAttempts

\* `if (!url)` of line 211: the poll loop is entered.
EntersLoop(u) == Falsy(u)

\* `if (url) break` of line 234.
BreaksLoop(u) == ~Falsy(u)

\* The loop test of `for (let i = 0; i < 6; i++)` with i = n.
LoopContinues(n) == n < PollAttempts

\* Lines 238-254: the response after the poll loop, for request r, created
\* file c and the final value u of url.
AfterLoop(r, c, u) == IF Falsy(u) THEN PendingResult(c) ELSE SuccessResult(r, c, u)

\* The register response arrives: the handler answers at once when it
\* carries a URL, else it enters the poll loop and starts the first wait.
RegisterResponse ==
    /\ pc = "register"
    /\ \E r \in RegisterResponses :
         /\ resps' = Append(resps, r)
         /\ IF RegisterOutcome(r) # NoResult
            THEN /\ Finish(RegisterOutcome(r))
                 /\ UNCHANGED <<created, url>>
            ELSE /\ created' = r
                 /\ url' = UrlOf(r)
                 /\ IF EntersLoop(UrlOf(r)) /\ LoopContinues(0)
                    THEN /\ pc' = "sleep"
                         /\ calls' = calls
                         /\ result' = result
                    ELSE Finish(AfterLoop(req, r, UrlOf(r)))
    /\ i' = 0
    /\ UNCHANGED <<env, req, mime, b64, staged, sleeps, form>>
    /\ UNCHANGED <<wvars, cvars>>

\* A loop that polls again without having waited.
WakeUpNoWait ==
    /\ pc = "sleep"
    /\ sleeps' = sleeps
    /\ GraphqlCall("poll", created.id, "poll")
    /\ UNCHANGED <<env, req, mime, b64, staged, created, url, i, resps, form>>
    /\ UNCHANGED <<wvars, cvars>>

\* sleep(800) completes and the poll query goes out.
WakeUp ==
    /\ pc = "sleep"
    /\ sleeps' = sleeps + 1
    /\ GraphqlCall("poll", created.id, "poll")
    /\ UNCHANGED <<env, req, mime, b64, staged, created, url, i, resps, form>>
    /\ UNCHANGED <<wvars, cvars>>

\* A poll whose failure is ignored.
PollOutcomeSwallowed(r) == NoResult

\* Lines 215-232 on a poll response: what shopifyGraphql or the read of
\* nodeData.node throws, or NoResult when the loop body goes on.
PollOutcome(r) ==
    IF shopifyGraphqlReceive(r).thrown THEN Caught(shopifyGraphqlReceive(r).error)
    ELSE IF ~r.hasData THEN Caught("TypeError")
    ELSE NoResult

\* A poll response arrives: success on a URL, else the next iteration or
\* the end of the loop without a URL.
PollResponse ==
    /\ pc = "poll"
    /\ \E r \in PollResponses :
         /\ resps' = Append(resps, r)
         /\ IF PollOutcome(r) # NoResult
            THEN /\ Finish(PollOutcome(r))
                 /\ UNCHANGED <<url, i>>
            ELSE /\ url' = UrlOf(r)
                 /\ IF BreaksLoop(UrlOf(r))
                    THEN /\ Finish(AfterLoop(req, created, UrlOf(r)))
                         /\ i' = i
                    ELSE /\ i' = i + 1
                         /\ IF LoopContinues(i + 1)
                            THEN /\ pc' = "sleep"
                                 /\ calls' = calls
                                 /\ result' = result
                            ELSE Finish(AfterLoop(req, created, UrlOf(r)))
    /\ UNCHANGED <<env, req, mime, b64, staged, created, sleeps, form>>
    /\ UNCHANGED <<wvars, cvars>>

Next ==
    \/ Receive
    \/ StagingResponse
    \/ UploadResponse
    \/ RegisterResponse
    \/ WakeUp
    \/ PollResponse

Spec == Init /\ [][Next]_vars

\* Every awaited call settles (fetch answers or rejects) and every timer
\* fires, so a handler that can take a step takes it.
FairSpec == Spec /\ WF_vars(Next)

(***************************************************************************)
(* Two invocations of the upload-preview POST handler running at once.     *)
(* Each runs the steps of the single invocation above; a step of one may   *)
(* come between any two steps of the other.  Both requests are well formed *)
(* and the configuration is present; the platform hands out staged targets,*)
(* file ids and URLs from small sets, the same or different ones to the    *)
(* two invocations, and may fail any call.                                 *)
(***************************************************************************)
\* The URLs a register or poll response carries for its file.
UrlsOf(r) == IF r.hasItem THEN {r.imageUrl, r.url} \ {Null, ""} ELSE {}

ConcEnv == [shop |-> "tc32.myshopify.com", token |-> "shpat_1"]

ConcRequest(p) ==
    [body |-> "object", hasDataUrl |-> TRUE, dataUrl |-> Chars("valid"),
     filename |-> "preview" \o ToString(p) \o ".png",
     groupId |-> "ORDER" \o ToString(p), areaKey |-> Null]

ConcStagingResponses ==
    { [Blank EXCEPT !.httpOk = FALSE] }
    \cup { [Blank EXCEPT !.hasItem = TRUE, !.hasParams = TRUE,
                         !.url = "https://stage/up" \o ToString(n),
                         !.resourceUrl = "https://stage/res" \o ToString(n)]
           : n \in Invocations }

ConcUploadResponses == { [Blank EXCEPT !.httpOk = FALSE], Blank }

ConcRegisterResponses ==
    { [Blank EXCEPT !.httpOk = FALSE] }
    \cup { [Blank EXCEPT !.hasItem = TRUE, !.id = id, !.imageUrl = iu]
           : id \in FileIds, iu \in {Null} \cup Urls }

ConcPollResponses ==
    { [Blank EXCEPT !.httpOk = FALSE] }
    \cup { [Blank EXCEPT !.hasItem = TRUE, !.imageUrl = iu]
           : iu \in {Null} \cup Urls }

\* One cell of locals for both activations.
SlotShared(p) == 1

\* `const`/`let` of lines 59-212 are locals of POST: each activation has
\* its own cell, and the module has no variable outside the functions.
Slot(p) == p

Locals(p) == cloc[Slot(p)]

ConcInit ==
    /\ UploadIdle
    /\ WebhookIdle
    /\ cpc = [p \in Invocations |-> "start"]
    /\ cloc = [p \in Invocations |-> NoLocals]
    /\ ccalls = [p \in Invocations |-> <<>>]
    /\ cgot = [p \in Invocations |-> NothingGot]
    /\ cresult = [p \in Invocations |-> NoResult]

CFinish(p, r) ==
    /\ cpc' = [cpc EXCEPT ![p] = "done"]
    /\ cresult' = [cresult EXCEPT ![p] = r]
    /\ ccalls' = ccalls

CSend(p, op, arg, next) ==
    /\ cpc' = [cpc EXCEPT ![p] = next]
    /\ ccalls' = [ccalls EXCEPT ![p] = Append(@, [op |-> op, arg |-> arg])]
    /\ cresult' = cresult

CGraphqlCall(p, op, arg, next) ==
    IF shopifyGraphqlSend(ConcEnv).thrown
    THEN CFinish(p, Caught(shopifyGraphqlSend(ConcEnv).error))
    ELSE CSend(p, op, arg, next)

CStay(p, next) ==
    /\ cpc' = [cpc EXCEPT ![p] = next]
    /\ UNCHANGED <<ccalls, cresult>>

CReceive(p) ==
    /\ cpc[p] = "start"
    /\ IF Validate(ConcRequest(p)) # NoResult
       THEN /\ CFinish(p, Validate(ConcRequest(p)))
            /\ cloc' = cloc
       ELSE /\ cloc' = [cloc EXCEPT
                  ![Slot(p)].mime = parseDataUrl(ConcRequest(p).dataUrl).mime,
                  ![Slot(p)].b64 = parseDataUrl(ConcRequest(p).dataUrl).b64]
            /\ CGraphqlCall(p, "staging", ConcRequest(p).filename, "staging")
    /\ UNCHANGED cgot
    /\ UNCHANGED <<uvars, wvars>>

CStagingResponse(p) ==
    /\ cpc[p] = "staging"
    /\ \E r \in ConcStagingResponses :
         /\ cgot' = [cgot EXCEPT ![p].target = r.url,
                                 ![p].resourceUrl = r.resourceUrl]
         /\ IF StagingOutcome(r) # NoResult
            THEN /\ CFinish(p, StagingOutcome(r))
                 /\ cloc' = cloc
            ELSE /\ cloc' = [cloc EXCEPT
                       ![Slot(p)].staged = r,
                       ![Slot(p)].form =
                           BuildForm(r, Base64Decode(Locals(p).b64),
                                     Locals(p).mime, ConcRequest(p).filename)]
                 /\ CSend(p, "upload", r.url, "upload")
    /\ UNCHANGED <<uvars, wvars>>

CUploadResponse(p) ==
    /\ cpc[p] = "upload"
    /\ \E r \in ConcUploadResponses :
         IF UploadOutcome(r) # NoResult
         THEN CFinish(p, UploadOutcome(r))
         ELSE CGraphqlCall(p, "register", Locals(p).staged.resourceUrl, "register")
    /\ UNCHANGED <<cloc, cgot>>
    /\ UNCHANGED <<uvars, wvars>>

CRegisterResponse(p) ==
    /\ cpc[p] = "register"
    /\ \E r \in ConcRegisterResponses :
         /\ cgot' = [cgot EXCEPT ![p].id = r.id, ![p].urls = UrlsOf(r)]
         /\ IF RegisterOutcome(r) # NoResult
            THEN /\ CFinish(p, RegisterOutcome(r))
                 /\ cloc' = cloc
            ELSE /\ cloc' = [cloc EXCEPT ![Slot(p)].created = r,
                                         ![Slot(p)].url = UrlOf(r),
                                         ![Slot(p)].i = 0]
                 /\ IF EntersLoop(UrlOf(r)) /\ LoopContinues(0)
                    THEN CStay(p, "sleep")
                    ELSE CFinish(p, AfterLoop(ConcRequest(p), r, UrlOf(r)))
    /\ UNCHANGED <<uvars, wvars>>

CWakeUp(p) ==
    /\ cpc[p] = "sleep"
    /\ CGraphqlCall(p, "poll", Locals(p).created.id, "poll")
    /\ UNCHANGED <<cloc, cgot>>
    /\ UNCHANGED <<uvars, wvars>>

\* The URLs of a poll response count as the invocation's own when the
\* poll asked for the file id the invocation was given.
CPollResponse(p) ==
    /\ cpc[p] = "poll"
    /\ \E r \in ConcPollResponses :
         /\ cgot' = IF ccalls[p][Len(ccalls[p])].arg = cgot[p].id
                    THEN [cgot EXCEPT ![p].urls = @ \cup UrlsOf(r)]
                    ELSE cgot
         /\ IF PollOutcome(r) # NoResult
            THEN /\ CFinish(p, PollOutcome(r))
                 /\ cloc' = cloc
            ELSE IF BreaksLoop(UrlOf(r))
            THEN /\ cloc' = [cloc EXCEPT ![Slot(p)].url = UrlOf(r)]
                 /\ CFinish(p, AfterLoop(ConcRequest(p), Locals(p).created, UrlOf(r)))
            ELSE /\ cloc' = [cloc EXCEPT ![Slot(p)].url = UrlOf(r),
                                         ![Slot(p)].i = @ + 1]
                 /\ IF LoopContinues(Locals(p).i + 1)
                    THEN CStay(p, "sleep")
                    ELSE CFinish(p, AfterLoop(ConcRequest(p), Locals(p).created,
                                              UrlOf(r)))
    /\ UNCHANGED <<uvars, wvars>>

ConcNext ==
    \E p \in Invocations :
        \/ CReceive(p)
        \/ CStagingResponse(p)
        \/ CUploadResponse(p)
        \/ CRegisterResponse(p)
        \/ CWakeUp(p)
        \/ CPollResponse(p)

ConcSpec == ConcInit /\ [][ConcNext]_vars


(***************************************************************************)
(* Properties of the upload-preview handler.  The predicates below speak   *)
(* of what the platform answered, independently of how the handler reads   *)
(* it.                                                                     *)
(***************************************************************************)
Done == pc = "done"

CallCount(op) == Cardinality({k \in 1..Len(calls) : calls[k].op = op})

\* The GraphQL endpoint answered: success status, no errors, data present.
Answered(r) == r.net /\ r.httpOk /\ r.gqlErrors = 0 /\ r.hasData

\* The URLs a register or poll response reports for its file.
UrlsIn(r) ==
    IF Answered(r) /\ r.hasItem THEN {r.imageUrl, r.url} \ {Null, ""} ELSE {}

StagingSucceeded(r) ==
    /\ Answered(r) /\ r.userErrors = 0
    /\ r.hasItem /\ r.url \notin {Null, ""} /\ r.resourceUrl \notin {Null, ""}

UploadSucceeded(r) == r.net /\ r.httpOk

RegisterSucceeded(r) ==
    Answered(r) /\ r.userErrors = 0 /\ r.hasItem /\ r.id \notin {Null, ""}

\* Response k is the answer to a call of operation op.
IsResp(k, op) == k \in 1..Len(resps) /\ calls[k].op = op

\* Staging, upload and registration all succeeded.
Registered ==
    /\ Len(resps) >= 3
    /\ StagingSucceeded(resps[1])
    /\ UploadSucceeded(resps[2])
    /\ RegisterSucceeded(resps[3])

\* Number of poll responses received, and the j-th of them.
PollsAnswered == IF Len(resps) > 3 THEN Len(resps) - 3 ELSE 0
PollResp(j) == resps[3 + j]

\* Registration succeeded without a URL and none of the PollAttempts polls
\* reported one.
NeverReady ==
    /\ Registered
    /\ UrlsIn(resps[3]) = {}
    /\ PollsAnswered = PollAttempts
    /\ \A j \in 1..PollAttempts : Answered(PollResp(j)) /\ UrlsIn(PollResp(j)) = {}

\* The response of the handler when the loop ends without a URL.
IsPending(r) == ~r.ok /\ r.extraId # Null

\* C1 (as claimed): when staging, upload and registration succeed and no
\* URL is reported within the whole poll budget, the handler returns the
\* pending result - status 202, ok false, the created id, a null URL -
\* and never a 500-class response.
C1_PendingIs202 ==
    (Done /\ NeverReady)
        => /\ result.status = 202
           /\ ~result.ok
           /\ result.extraId = resps[3].id
           /\ result.url = Null

\* C2: a success response carries a URL that the platform reported for the
\* created file id, in the register response or in a poll response of the
\* same invocation, and the id returned by registration.
C2_UrlFromPlatform ==
    /\ (result.ok \/ result.url # Null) => (Done /\ result.ok)
    /\ (Done /\ result.ok)
        => /\ result.status = 200
           /\ result.url \notin {Null, ""}
           /\ IsResp(3, "register")
           /\ RegisterSucceeded(resps[3])
           /\ result.id = resps[3].id
           /\ \/ result.url \in UrlsIn(resps[3])
              \/ \E k \in 4..Len(resps) :
                    /\ calls[k] = [op |-> "poll", arg |-> result.id]
                    /\ result.url \in UrlsIn(resps[k])

\* A success response whose URL came from a poll.
C2_Witness ==
    /\ Done /\ result.ok
    /\ UrlsIn(resps[3]) = {}
    /\ Len(resps) = 5
    /\ result.url \in UrlsIn(resps[5])

\* The platform first reports a URL on the k-th poll.
FirstReadyAt(k) ==
    /\ Registered
    /\ UrlsIn(resps[3]) = {}
    /\ PollsAnswered >= k
    /\ UrlsIn(PollResp(k)) # {}
    /\ \A j \in 1..(k - 1) : UrlsIn(PollResp(j)) = {}

\* A step that sends a poll query.
SendsPoll ==
    /\ Len(calls') = Len(calls) + 1
    /\ calls'[Len(calls')].op = "poll"

\* C3: when the platform first reports a URL on the k-th poll, the handler
\* returns success with that URL after exactly k poll queries; a poll is
\* sent only once the registration response is in, and never after a poll
\* that reported a URL.
C3_ExactlyKPolls ==
    /\ [](\A k \in 1..PollAttempts :
            FirstReadyAt(k)
                => /\ Done
                   /\ result.ok /\ result.status = 200
                   /\ result.url \in UrlsIn(PollResp(k))
                   /\ result.id = resps[3].id
                   /\ CallCount("poll") = k
                   /\ Len(calls) = 3 + k)
    /\ [][SendsPoll
            => /\ Registered'
               /\ Len(resps') = Len(calls)
               /\ \A j \in 1..PollsAnswered' : UrlsIn(PollResp(j)') = {}]_vars

\* The URL arrives on the last poll of the budget.
C3_Witness ==
    /\ FirstReadyAt(PollAttempts)
    /\ result.ok
    /\ CallCount("poll") = PollAttempts

\* C4: when the register response already carries a URL for the created
\* file, the handler makes no poll query and no wait and returns success
\* with that URL.
C4_SkipPolling ==
    (Registered /\ UrlsIn(resps[3]) # {})
        => /\ Done
           /\ result.ok /\ result.status = 200
           /\ result.url \in UrlsIn(resps[3])
           /\ result.id = resps[3].id
           /\ CallCount("poll") = 0
           /\ sleeps = 0
           /\ Len(calls) = 3

C4_Witness ==
    /\ Registered /\ UrlsIn(resps[3]) # {}
    /\ Done /\ result.ok


\* Request bodies that are well formed: both fields present and a data URL
\* of the shape data:<mime>;base64,<payload>.
WellFormed(r) ==
    /\ r.body = "object"
    /\ r.hasDataUrl /\ r.dataUrl \in {Chars("valid"), Chars("upper")}
    /\ r.filename \notin {Null, ""}

\* A field is missing from the request body.
MissingField(r) ==
    r.body = "object" /\ (~r.hasDataUrl \/ r.dataUrl = <<>> \/ r.filename \in {Null, ""})

\* Malformed input: a missing field, or a data URL of another shape.
MalformedInput(r) == r.body = "object" /\ ~WellFormed(r)

\* C5 (as claimed): malformed input - a missing dataUrl, a missing
\* filename, a dataUrl of another shape - is answered with 400, and no
\* outbound call is made.
C5_MalformedIs400 ==
    (Done /\ MalformedInput(req)) => (result.status = 400 /\ calls = <<>>)

\* Response k reports a failure of its stage.
StageFailed(k) ==
    CASE calls[k].op = "staging" -> ~StagingSucceeded(resps[k])
      [] calls[k].op = "upload" -> ~UploadSucceeded(resps[k])
      [] calls[k].op = "register" -> ~RegisterSucceeded(resps[k])
      [] calls[k].op = "poll" -> ~Answered(resps[k])

\* A step that sends a call of operation op.
Sends(op) ==
    /\ Len(calls') = Len(calls) + 1
    /\ calls'[Len(calls')].op = op

\* C6: the stages are strictly ordered and fail fast: the upload is sent
\* only after staging returned a target with no user errors, the register
\* mutation only after a 2xx upload, a poll only after registration
\* returned an id with no user errors; once a stage fails no later call is
\* made and the invocation ends with a non-success response.  (A step of
\* the handler runs from one response to the next call, so the responses
\* a call follows are those of the step's end state.)
C6_OrderedFailFast ==
    /\ [](\A k \in 1..Len(resps) :
            StageFailed(k)
                => /\ Done
                   /\ ~result.ok /\ result.status # 200
                   /\ Len(calls) = k)
    /\ [][/\ Sends("staging") => calls = <<>>
          /\ Sends("upload")
                => /\ Len(resps') = 1 /\ Len(calls) = 1
                   /\ calls[1].op = "staging" /\ StagingSucceeded(resps'[1])
          /\ Sends("register")
                => /\ Len(resps') = 2 /\ Len(calls) = 2
                   /\ calls[2].op = "upload" /\ UploadSucceeded(resps'[2])
          /\ Sends("poll")
                => /\ Len(resps') = Len(calls) /\ Len(resps') >= 3
                   /\ calls[3].op = "register" /\ RegisterSucceeded(resps'[3])
                   /\ \A k \in 1..Len(resps') : ~StageFailed(k)']_vars

\* The upload was refused and the invocation ended there.
C6_Witness ==
    /\ Done
    /\ Len(resps) = 2 /\ resps[2].net /\ ~resps[2].httpOk
    /\ Len(calls) = 2
    /\ result.status = 500

\* Response k reports a failure of the remote platform: a non-success HTTP
\* status, GraphQL errors, or user errors of a mutation.
PlatformFailure(k) ==
    /\ resps[k].net
    /\ \/ ~resps[k].httpOk
       \/ calls[k].op # "upload" /\ resps[k].gqlErrors > 0
       \/ /\ calls[k].op \in {"staging", "register"}
          /\ Answered(resps[k]) /\ resps[k].userErrors > 0

\* C7 (as claimed): every failure reported by the platform is surfaced as
\* a 500 response; 400 is used only for malformed caller input.
C7_PlatformFailureIs500 ==
    Done => /\ (\E k \in 1..Len(resps) : PlatformFailure(k)) => result.status = 500
            /\ result.status = 400 => (MalformedInput(req) /\ calls = <<>>)

\* C8: an invocation makes at most 3 + PollAttempts outbound calls - one
\* staging mutation, one upload, one register mutation, at most
\* PollAttempts polls - and one that ends in success or in the not-ready
\* outcome made each of the three non-poll calls exactly once.
C8_CallBudget ==
    /\ Len(calls) <= 3 + PollAttempts
    /\ CallCount("staging") <= 1
    /\ CallCount("upload") <= 1
    /\ CallCount("register") <= 1
    /\ CallCount("poll") <= PollAttempts
    /\ \A k \in 1..Len(calls) : calls[k].op \in {"staging", "upload", "register", "poll"}
    /\ (Done /\ (result.ok \/ IsPending(result)))
          => /\ CallCount("staging") = 1
             /\ CallCount("upload") = 1
             /\ CallCount("register") = 1

\* The whole budget was spent and the loop ended without a URL.
C8_Witness ==
    /\ Done /\ IsPending(result)
    /\ Len(calls) = 3 + PollAttempts

\* The shop domain or the access token is not configured.
EnvMissing == env.shop \in {Null, ""} \/ env.token \in {Null, ""}

ReportsMissingEnv(r) ==
    /\ r.status = 500
    /\ r.error \in {"Missing env: SHOPIFY_SHOP_DOMAIN",
                    "Missing env: SHOPIFY_ADMIN_ACCESS_TOKEN"}

\* C9 (as claimed): with the shop domain or the token not configured, no
\* outbound call is made and the invocation ends with a 500 response
\* reporting the missing configuration, whatever the request.
C9_MissingEnvAlways500 ==
    EnvMissing => (calls = <<>> /\ (Done => ReportsMissingEnv(result)))

\* C9 (amended): with the shop domain or the token not configured, no
\* outbound call is made; a well-formed request ends with a 500 response
\* reporting the missing configuration, a request with a missing field is
\* answered 400 first, and no other request is answered with the
\* configuration report.
C9_MissingEnvAfterValidation ==
    EnvMissing
        => /\ calls = <<>>
           /\ Done => /\ WellFormed(req) <=> ReportsMissingEnv(result)
                      /\ MissingField(req) => result.status = 400
                      /\ result.status \in {400, 500}

\* A well-formed request with only the token missing.
C9_Witness ==
    /\ Done
    /\ env.shop \notin {Null, ""} /\ env.token = Null
    /\ WellFormed(req)
    /\ result.error = "Missing env: SHOPIFY_ADMIN_ACCESS_TOKEN"


(***************************************************************************)
(* Properties of the webhook handler.                                      *)
(***************************************************************************)
WDone == wpc = "done"

\* The handler computed a digest over the body it read and the supplied
\* non-empty signature differs from it.
SignatureMismatch ==
    /\ secret \in Secrets
    /\ wreq.hasHmac /\ wreq.hmac # <<>>
    /\ raw # NoBody
    /\ wreq.hmac # Digest(secret, raw.text)

\* C10: a non-empty signature header that differs from the digest of the
\* raw body is answered 401 {ok:false, error:"Invalid HMAC"} and the body
\* is never parsed; the body is parsed, and 200 returned, only after the
\* signature verification has returned true.
C10_InvalidHmacNotParsed ==
    /\ []((WDone /\ SignatureMismatch)
            => /\ wresult = WResponse(401, FALSE, "Invalid HMAC")
               /\ ~parsed
               /\ ~logged.written)
    /\ []((parsed \/ wresult.status = 200 \/ wpc = "parse")
            => /\ okHmac = "true"
               /\ wreq.hasHmac /\ wreq.hmac = Digest(secret, raw.text))
    /\ [][(parsed' /\ ~parsed) => okHmac = "true"]_vars

\* A signature made for another body, of the digest's length, was refused.
C10_Witness ==
    /\ WDone /\ SignatureMismatch
    /\ Len(wreq.hmac) = Len(Digest(secret, raw.text))
    /\ wresult.status = 401


(***************************************************************************)
(* Properties of verifyShopifyHmac.                                        *)
(***************************************************************************)
Returned == wpc = "returned"

\* C11: verifyShopifyHmac returns true exactly when the supplied signature
\* equals the digest of the body under the secret: true for a correctly
\* signed body, false for the digest of another body, and false - not a
\* throw - for a signature of any other length, the empty one included.
C11_VerifyIffDigest ==
    Returned
        => /\ okHmac \in {"true", "false"}
           /\ (okHmac = "true") <=> (wreq.hmac = Digest(secret, wreq.body.text))
           /\ Len(wreq.hmac) # Len(Digest(secret, wreq.body.text)) => okHmac = "false"
           /\ \A b \in Bodies :
                (b.text # wreq.body.text /\ wreq.hmac = Digest(secret, b.text))
                    => okHmac = "false"

\* A digest made under the other secret, of the right length, is refused.
C11_Witness ==
    /\ Returned
    /\ okHmac = "false"
    /\ \E sec \in Secrets \ {secret} : wreq.hmac = Digest(sec, wreq.body.text)


(***************************************************************************)
(* Further properties of the webhook handler.                              *)
(***************************************************************************)
\* The request carries no signature: the header is absent or empty.
NoSignature == ~wreq.hasHmac \/ wreq.hmac = <<>>

SecretMissing == secret \in {Null, ""}

\* The body that was read carries the digest of its text under the secret.
SignatureValid ==
    /\ secret \in Secrets
    /\ raw # NoBody
    /\ wreq.hasHmac /\ wreq.hmac = Digest(secret, raw.text)

\* C12 (as claimed): every authentication failure is uniform - a missing
\* signature header gets the same 401 response, with the same error
\* message, as a mismatching one.
C12_Uniform401 ==
    (WDone /\ wresult.status = 401) => wresult = WResponse(401, FALSE, "Invalid HMAC")

\* C13: with the webhook secret not configured every request - one with a
\* missing or an invalid signature header included - is answered 500,
\* never 401, and no HMAC is computed.
C13_MissingSecretIs500 ==
    SecretMissing
        => /\ okHmac = "none"
           /\ raw = NoBody
           /\ wpc \in {"start", "done"}
           /\ WDone => wresult = WResponse(500, FALSE, "Missing env: SHOPIFY_WEBHOOK_SECRET")

\* No secret and no signature header: the answer is the 500.
C13_Witness ==
    /\ WDone /\ SecretMissing /\ NoSignature
    /\ wresult.status = 500

\* C14: a body that passes signature verification but is not valid JSON is
\* answered 500, never 401; the 500 of the parser occurs only after the
\* verification succeeded, and no 401 is returned after it succeeded.
C14_BadJsonIs500 ==
    /\ (WDone /\ SignatureValid /\ raw.text # "" /\ raw.json = "invalid")
          => (wresult.status = 500 /\ ~wresult.ok /\ okHmac = "true")
    /\ (SignatureValid /\ okHmac # "none") => (okHmac = "true" /\ wresult.status # 401)
    /\ wresult.error = "Unexpected token in JSON"
          => (wresult.status = 500 /\ SignatureValid /\ okHmac = "true")

C14_Witness ==
    /\ WDone /\ SignatureValid
    /\ raw.text # "" /\ raw.json = "invalid"
    /\ wresult.status = 500

\* C15: a request without a signature header is rejected at once with 401
\* (the secret being configured): the body is not read, no HMAC is
\* computed and the body is not parsed before the response.
C15_NoHeaderNoWork ==
    NoSignature
        => /\ raw = NoBody
           /\ okHmac = "none"
           /\ ~parsed /\ ~logged.written
           /\ wpc \in {"start", "done"}
           /\ (WDone /\ ~SecretMissing)
                 => wresult = WResponse(401, FALSE, "Missing HMAC header")

C15_Witness ==
    /\ WDone /\ ~wreq.hasHmac /\ ~SecretMissing
    /\ wresult.status = 401


\* The body is empty or parses as JSON.
Parsable == raw.text = "" \/ raw.json # "invalid"

\* The payload carries neither timestamp.
NoTimestamp ==
    \/ raw.text = "" \/ raw.json # "object"
    \/ raw.processedAt = Null /\ raw.updatedAt = Null

\* C19: once the signature is verified the field extraction never throws:
\* an empty body and every body that parses as JSON - an object with any
\* of the optional fields, or a value such as null - is answered
\* 200 {ok:true}, and an absent timestamp resolves to null.
C19_ExtractionNeverThrows ==
    (WDone /\ SignatureValid /\ Parsable)
        => /\ wresult = WResponse(200, TRUE, "")
           /\ logged.written
           /\ NoTimestamp => logged.paidAt = Null
           /\ ~NoTimestamp => logged.paidAt \in {raw.processedAt, raw.updatedAt} \ {Null}

\* The body null was verified and answered 200.
C19_Witness ==
    /\ WDone /\ SignatureValid
    /\ raw.json = "null" /\ logged.paidAt = Null
    /\ wresult.status = 200


(***************************************************************************)
(* Further properties of the upload-preview handler.                       *)
(***************************************************************************)
\* The response carries a file id, as id or inside extra.
CarriesId(r) == r.id # Null \/ r.extraId # Null

ExpectedBytes(d) == IF d = Chars("valid") THEN <<65>> ELSE <<>>

\* The upload has been sent.
UploadSent == Len(calls) >= 2

\* C17: the upload form holds every parameter staging returned, each once,
\* with its name and value and in the order returned, followed by a single
\* file part with the decoded bytes under the caller's filename.
C17_FormVerbatim ==
    /\ ~UploadSent => form = <<>>
    /\ UploadSent
          => LET ps == resps[1].params
             IN  /\ Len(form) = Len(ps) + 1
                 /\ \A k \in 1..Len(ps) :
                       /\ ~form[k].isFile
                       /\ form[k].name = ps[k].name
                       /\ form[k].value = ps[k].value
                 /\ form[Len(form)].isFile
                 /\ form[Len(form)].name = "file"
                 /\ form[Len(form)].filename = req.filename
                 /\ form[Len(form)].bytes = ExpectedBytes(req.dataUrl)

\* Two parameters, policy before key, and a one-byte file.
C17_Witness ==
    /\ UploadSent
    /\ resps[1].params = <<ParamPolicy, ParamKey>>
    /\ Len(form) = 3
    /\ form[3].bytes = <<65>>


\* The loop was entered: registration succeeded and reported no URL.
LoopEntered == Registered /\ UrlsIn(resps[3]) = {}

\* The ways the loop is left: a poll reported a URL, the attempts ran out,
\* a poll failed.
LoopEndedBySuccess ==
    /\ PollsAnswered >= 1
    /\ UrlsIn(PollResp(PollsAnswered)) # {}
    /\ \A j \in 1..(PollsAnswered - 1) :
          Answered(PollResp(j)) /\ UrlsIn(PollResp(j)) = {}

LoopEndedByExhaustion == NeverReady

LoopEndedByFailure ==
    /\ PollsAnswered >= 1
    /\ ~Answered(PollResp(PollsAnswered))
    /\ \A j \in 1..(PollsAnswered - 1) :
          Answered(PollResp(j)) /\ UrlsIn(PollResp(j)) = {}

\* C16 (as claimed): the poll loop ends exclusively through a poll that
\* returned a URL or through exhaustion of the attempt count.
C16_LoopEndsOnlyBySuccessOrExhaustion ==
    (Done /\ LoopEntered)
        => (LoopEndedBySuccess \/ LoopEndedByExhaustion)

\* C16 (amended): every invocation ends with exactly one response, set
\* once and never changed; the poll queries never exceed PollAttempts and
\* each is preceded by exactly one wait; the loop is left through a poll
\* that returned a URL, through exhaustion of the attempts, or through a
\* failed poll, which ends the invocation with status 500.
C16_TerminatesBounded ==
    /\ [](/\ CallCount("poll") <= PollAttempts
          /\ sleeps = CallCount("poll")
          /\ Done <=> result # NoResult
          /\ (Done /\ LoopEntered)
                => \/ LoopEndedBySuccess /\ result.ok
                   \/ LoopEndedByExhaustion /\ ~result.ok
                   \/ /\ LoopEndedByFailure
                      /\ result.status = 500 /\ ~result.ok)
    /\ [][/\ result # NoResult => result' = result
          /\ SendsPoll => sleeps' = sleeps + 1 /\ Len(resps') = Len(calls)]_vars
    /\ <>Done

\* The loop is left on a failed third poll, after three waits.
C16_Witness ==
    /\ Done /\ LoopEntered
    /\ LoopEndedByFailure
    /\ PollsAnswered = 3
    /\ sleeps = 3


\* The calls of operation op invocation p issued.
CallsOf(p, op) == {k \in 1..Len(ccalls[p]) : ccalls[p][k].op = op}

\* C18: two invocations under any interleaving share no mutable state: a
\* step of one leaves the locals of the other alone; each uploads only to
\* the target of its own staging call, registers only its own resourceUrl,
\* polls only the file id of its own registration, and its response
\* carries only its own key, id and url.
C18_Isolation ==
    /\ [](\A p \in Invocations :
            /\ \A k \in CallsOf(p, "upload") :
                  ccalls[p][k].arg = cgot[p].target
            /\ \A k \in CallsOf(p, "register") :
                  ccalls[p][k].arg = cgot[p].resourceUrl
            /\ \A k \in CallsOf(p, "poll") :
                  ccalls[p][k].arg = cgot[p].id
            /\ cresult[p].ok
                  => /\ cresult[p].id = cgot[p].id
                     /\ cresult[p].url \in cgot[p].urls
                     /\ cresult[p].key = SuccessResult(ConcRequest(p), Blank, Null).key
            /\ cresult[p].extraId # Null => cresult[p].extraId = cgot[p].id)
    /\ [][\A p \in Invocations :
            cpc'[p] = cpc[p]
                => /\ Locals(p)' = Locals(p)
                   /\ ccalls'[p] = ccalls[p]
                   /\ cresult'[p] = cresult[p]]_vars

\* Both invocations polled and succeeded, with different targets, ids
\* and URLs.
C18_Witness ==
    /\ cresult[1].ok /\ cresult[2].ok
    /\ cgot[1].target # cgot[2].target
    /\ cresult[1].id # cresult[2].id
    /\ cresult[1].url # cresult[2].url
    /\ CallsOf(1, "poll") # {} /\ CallsOf(2, "poll") # {}

====
